---- MODULE Spec2Model ----
(***************************************************************************)
(* Model of firmware/Temperaturlogger.ino: the persisted configuration,    *)
(* its normalisation, the device identity, the Operate/Identify mode, the  *)
(* InfluxDB client handle, the web handlers and the timer-gated upload     *)
(* cycle of loop().                                                        *)
(*                                                                         *)
(* An Arduino String is a sequence of one-character strings.  A C `long`   *)
(* or `int` is a 32-bit integer; an `unsigned long` u is represented by    *)
(* the signed integer with the same 32-bit pattern (u when u < 2^31, else  *)
(* u - 2^32), so that the cast (unsigned long)x is the identity on the     *)
(* representation while comparison and subtraction are the unsigned ones   *)
(* (ULt, USub).                                                            *)
(***************************************************************************)
EXTENDS Integers, Sequences, FiniteSets, TLC

(***************************************************************************)
(* Characters and Arduino String operations                                *)
(***************************************************************************)
LowerChars == <<"a","b","c","d","e","f","g","h","i","j","k","l","m",
                "n","o","p","q","r","s","t","u","v","w","x","y","z">>

UpperChars == <<"A","B","C","D","E","F","G","H","I","J","K","L","M",
                "N","O","P","Q","R","S","T","U","V","W","X","Y","Z">>

DigitChars == <<"0","1","2","3","4","5","6","7","8","9">>

\* isspace() of the C library, as used by String::trim and strtol
IsSpace(c) == c \in {" ", "\t", "\n", "\r"}

IsDigit(c) == \E i \in 1..10 : DigitChars[i] = c

DigitValue(c) == (CHOOSE i \in 1..10 : DigitChars[i] = c) - 1

LowerChar(c) ==
    IF \E i \in 1..26 : UpperChars[i] = c
    THEN LowerChars[CHOOSE i \in 1..26 : UpperChars[i] = c]
    ELSE c

UpperChar(c) ==
    IF \E i \in 1..26 : LowerChars[i] = c
    THEN UpperChars[CHOOSE i \in 1..26 : LowerChars[i] = c]
    ELSE c

\* String::toLowerCase / String::toUpperCase
toLowerCase(s) == [i \in 1..Len(s) |-> LowerChar(s[i])]

toUpperCase(s) == [i \in 1..Len(s) |-> UpperChar(s[i])]

RECURSIVE TrimLeft(_)
TrimLeft(s) ==
    IF s # <<>> /\ IsSpace(Head(s)) THEN TrimLeft(Tail(s)) ELSE s

RECURSIVE TrimRight(_)
TrimRight(s) ==
    IF s # <<>> /\ IsSpace(s[Len(s)])
    THEN TrimRight(SubSeq(s, 1, Len(s) - 1))
    ELSE s

\* String::trim: strips leading and trailing whitespace
trim(s) == TrimRight(TrimLeft(s))

\* String::replace(find, "") for a one-character find
RECURSIVE RemoveChar(_, _)
RemoveChar(s, c) ==
    IF s = <<>> THEN <<>>
    ELSE IF Head(s) = c THEN RemoveChar(Tail(s), c)
    ELSE <<Head(s)>> \o RemoveChar(Tail(s), c)

\* String::substring(from): the suffix starting at 0-based index from
substring(s, from) ==
    IF from >= Len(s) THEN <<>> ELSE SubSeq(s, from + 1, Len(s))

\* strncpy into a buffer of n characters (WiFiManagerParameter value, snprintf)
Truncate(s, n) == IF Len(s) > n THEN SubSeq(s, 1, n) ELSE s

(***************************************************************************)
(* 32-bit integers                                                         *)
(***************************************************************************)
LONG_MAX == 2147483647

LONG_MIN == -2147483647 - 1

\* unsigned a < b on the 32-bit patterns
ULt(a, b) == IF (a < 0) = (b < 0) THEN a < b ELSE b < 0

\* unsigned (a - b) mod 2^32 on the 32-bit patterns, never leaving 32 bits
USub(a, b) ==
    IF (a < 0) = (b < 0) THEN a - b
    ELSE IF a >= 0
         THEN LET x == (a + LONG_MIN) - b
              IN  IF x >= 0 THEN x + LONG_MIN ELSE x - LONG_MIN
         ELSE LET x == (a - LONG_MIN) - b
              IN  IF x < 0 THEN x - LONG_MIN ELSE x + LONG_MIN

\* strtol's digit loop, saturating at LONG_MAX / LONG_MIN as newlib does
RECURSIVE AccDigits(_, _, _)
AccDigits(s, acc, neg) ==
    IF s = <<>> \/ ~IsDigit(Head(s)) THEN acc
    ELSE LET d == DigitValue(Head(s))
         IN  IF neg
             THEN IF acc < (LONG_MIN + d) \div 10 + (IF (LONG_MIN + d) % 10 = 0 THEN 0 ELSE 1)
                  THEN AccDigits(Tail(s), LONG_MIN, neg)
                  ELSE AccDigits(Tail(s), acc * 10 - d, neg)
             ELSE IF acc > (LONG_MAX - d) \div 10
                  THEN AccDigits(Tail(s), LONG_MAX, neg)
                  ELSE AccDigits(Tail(s), acc * 10 + d, neg)

\* String::toInt: atol() of the buffer; 0 when no number can be read
toInt(s) ==
    LET t == TrimLeft(s)
    IN  IF t = <<>> THEN 0
        ELSE IF Head(t) = "-" THEN AccDigits(Tail(t), 0, TRUE)
        ELSE IF Head(t) = "+" THEN AccDigits(Tail(t), 0, FALSE)
        ELSE AccDigits(t, 0, FALSE)

\* decimal digits of a non-negative int
RECURSIVE NatToStr(_)
NatToStr(n) ==
    IF n < 10 THEN <<DigitChars[n + 1]>>
    ELSE NatToStr(n \div 10) \o <<DigitChars[(n % 10) + 1]>>

\* String(int) and printf("%d")
IntToStr(n) ==
    IF n >= 0 THEN NatToStr(n)
    ELSE IF n = LONG_MIN THEN <<"-">> \o NatToStr(214748364) \o <<"8">>
    ELSE <<"-">> \o NatToStr(0 - n)

\* printf("%lu") of an unsigned long pattern (2^32 = 429496729 * 10 + 6)
ULongToStr(u) ==
    IF u >= 0 THEN NatToStr(u)
    ELSE NatToStr(429496729 + ((u + 6) \div 10)) \o <<DigitChars[((u + 6) % 10) + 1]>>

(***************************************************************************)
(* Program constants                                                       *)
(***************************************************************************)
INFLUXDB_URL_DEFAULT ==
    <<"h","t","t","p","s",":","/","/","e","u","-","c","e","n","t","r","a","l","-","1","-","1",".","a","w","s",".","c","l","o","u","d","2",".","i","n","f","l","u","x","d","a","t","a",".","c","o","m">>

INFLUXDB_BUCKET_DEFAULT ==
    <<"B","u","c","k","e","t","M","e","a","s","e","r","m","e","n","t","s">>

DEFAULT_MEASUREMENT == <<"t","e","m","p","e","r","a","t","u","r","e">>

DEFAULT_TEMP_RES == 10

DEFAULT_INTERVAL_MS == 30000

DEFAULT_IDENT_INTERVAL_MS == 30000

MAX_ROOMS == 32

\* enum class Mode
Operate == "Operate"

Identify == "Identify"

Modes == {Operate, Identify}

str_operate == <<"o","p","e","r","a","t","e">>

str_identify == <<"i","d","e","n","t","i","f","y">>

modeToString(currentMode) ==
    IF currentMode = Operate THEN str_operate ELSE str_identify

\* parseModeFromInput comparing the input as typed
parseModeFromInputExact(inputMode) ==
    IF inputMode = str_operate THEN [ok |-> TRUE, setMode |-> Operate]
    ELSE IF inputMode = str_identify THEN [ok |-> TRUE, setMode |-> Identify]
    ELSE [ok |-> FALSE, setMode |-> Operate]

\* parseModeFromInput: ok tells whether setMode was assigned
parseModeFromInput(inputMode) ==
    LET normalized == toLowerCase(trim(inputMode))
    IN  IF normalized = str_operate THEN [ok |-> TRUE, setMode |-> Operate]
        ELSE IF normalized = str_identify THEN [ok |-> TRUE, setMode |-> Identify]
        ELSE [ok |-> FALSE, setMode |-> Operate]

(***************************************************************************)
(* struct Config; the global cfg as constructed (empty Strings, zeroed     *)
(* static storage, empty vector)                                           *)
(***************************************************************************)
ConfigAtConstruction ==
    [url |-> <<>>, token |-> <<>>, org |-> <<>>, bucket |-> <<>>,
     measurement |-> <<>>, deviceId |-> <<>>, alias |-> <<>>,
     tempResBits |-> 0, operateIntervalMs |-> 0, identifyIntervalMs |-> 0,
     currentMode |-> Operate, rooms |-> <<>>]

(***************************************************************************)
(* Sensor / room mapping helpers                                           *)
(***************************************************************************)
sensorIdFromIndex(indexZeroBased) == <<"S">> \o IntToStr(indexZeroBased + 1)

\* roomForSensorIndex returning the stored name also when it is blank
roomForSensorIndexNoBlankTest(c, sensorIndex) ==
    IF sensorIndex >= 0 /\ sensorIndex < Len(c.rooms)
    THEN trim(c.rooms[sensorIndex + 1])
    ELSE sensorIdFromIndex(sensorIndex)

roomForSensorIndex(c, sensorIndex) ==
    IF sensorIndex >= 0 /\ sensorIndex < Len(c.rooms)
          /\ Len(trim(c.rooms[sensorIndex + 1])) > 0
    THEN trim(c.rooms[sensorIndex + 1])
    ELSE sensorIdFromIndex(sensorIndex)

(***************************************************************************)
(* Device identity from the station MAC.  macAddress is the String that    *)
(* WiFi.macAddress() returns.                                               *)
(***************************************************************************)
getStaMacHexUpper(macAddress) == toUpperCase(RemoveChar(macAddress, ":"))

str_esp32 == <<"e","s","p","3","2","-">>

\* deriveDeviceIdFromStaMac taking the first three bytes
deriveDeviceIdFirstBytes(macAddress) ==
    LET macSuffix == getStaMacHexUpper(macAddress)
    IN  IF Len(macSuffix) # 12 THEN str_esp32 \o <<"0","0","0","0","0","0">>
        ELSE str_esp32 \o SubSeq(macSuffix, 1, 6)

deriveDeviceIdFromStaMac(macAddress) ==
    LET macSuffix == getStaMacHexUpper(macAddress)
    IN  IF Len(macSuffix) # 12 THEN str_esp32 \o <<"0","0","0","0","0","0">>
        ELSE str_esp32 \o substring(macSuffix, 6)

\* enforceDeviceIdFromStaMac keeping a deviceId that is already set
enforceDeviceIdKeepExisting(c, macAddress) ==
    LET derivedDeviceId == trim(deriveDeviceIdFromStaMac(macAddress))
    IN  IF Len(c.deviceId) = 0
        THEN [cfg |-> [c EXCEPT !.deviceId = derivedDeviceId], changed |-> TRUE]
        ELSE [cfg |-> c, changed |-> FALSE]

\* enforceDeviceIdFromStaMac: the new cfg and the returned flag
enforceDeviceIdFromStaMac(c, macAddress) ==
    LET derivedDeviceId == trim(deriveDeviceIdFromStaMac(macAddress))
    IN  IF c.deviceId # derivedDeviceId
        THEN [cfg |-> [c EXCEPT !.deviceId = derivedDeviceId], changed |-> TRUE]
        ELSE [cfg |-> c, changed |-> FALSE]

(***************************************************************************)
(* normalizeConfig / influxConfigIsUsable                                  *)
(***************************************************************************)
OrDefault(s, default) == IF Len(s) = 0 THEN default ELSE s

\* if (v < lo) v = lo; if (v > hi) v = hi;  on int
ClampInt(v, lo, hi) ==
    LET v1 == IF v < lo THEN lo ELSE v
    IN  IF v1 > hi THEN hi ELSE v1

\* ClampULong without its second statement
ClampULongLowOnly(v, lo, hi) == IF ULt(v, lo) THEN lo ELSE v

\* the same two statements on unsigned long
ClampULong(v, lo, hi) ==
    LET v1 == IF ULt(v, lo) THEN lo ELSE v
    IN  IF ULt(hi, v1) THEN hi ELSE v1

\* normalizeConfig filling the defaults before trimming
normalizeConfigFillFirst(c) ==
    [c EXCEPT
       !.url = trim(OrDefault(c.url, INFLUXDB_URL_DEFAULT)),
       !.bucket = trim(OrDefault(c.bucket, INFLUXDB_BUCKET_DEFAULT)),
       !.measurement = trim(OrDefault(c.measurement, DEFAULT_MEASUREMENT)),
       !.org = trim(c.org),
       !.token = trim(c.token),
       !.deviceId = trim(c.deviceId),
       !.alias = trim(c.alias),
       !.tempResBits = ClampInt(c.tempResBits, 9, 12),
       !.operateIntervalMs = ClampULong(c.operateIntervalMs, 5000, 3600000),
       !.identifyIntervalMs = ClampULong(c.identifyIntervalMs, 2000, 3600000),
       !.rooms = IF Len(c.rooms) > MAX_ROOMS THEN SubSeq(c.rooms, 1, MAX_ROOMS)
                 ELSE c.rooms]

normalizeConfig(c) ==
    [c EXCEPT
       !.url = OrDefault(trim(c.url), INFLUXDB_URL_DEFAULT),
       !.bucket = OrDefault(trim(c.bucket), INFLUXDB_BUCKET_DEFAULT),
       !.measurement = OrDefault(trim(c.measurement), DEFAULT_MEASUREMENT),
       !.org = trim(c.org),
       !.token = trim(c.token),
       !.deviceId = trim(c.deviceId),
       !.alias = trim(c.alias),
       !.tempResBits = ClampInt(c.tempResBits, 9, 12),
       !.operateIntervalMs = ClampULong(c.operateIntervalMs, 5000, 3600000),
       !.identifyIntervalMs = ClampULong(c.identifyIntervalMs, 2000, 3600000),
       !.rooms = IF Len(c.rooms) > MAX_ROOMS THEN SubSeq(c.rooms, 1, MAX_ROOMS)
                 ELSE c.rooms]

\* influxConfigIsUsable without the token
influxConfigIsUsableNoToken(c) ==
    Len(c.url) # 0 /\ Len(c.bucket) # 0 /\ Len(c.org) # 0

influxConfigIsUsable(c) ==
    Len(c.url) # 0 /\ Len(c.bucket) # 0 /\ Len(c.org) # 0 /\ Len(c.token) # 0

(***************************************************************************)
(* /config.json on LittleFS.  The file is absent, unreadable (mount or     *)
(* open fails), malformed (deserializeJson reports an error) or holds a    *)
(* JSON object: a function from keys to values.  A value is a string, an   *)
(* integer or an array of values.                                          *)
(***************************************************************************)
JStr(s) == [t |-> "str", s |-> s, n |-> 0, a |-> <<>>]

JNum(n) == [t |-> "num", s |-> <<>>, n |-> n, a |-> <<>>]

JArr(a) == [t |-> "arr", s |-> <<>>, n |-> 0, a |-> a]

NoDoc == [k \in {} |-> JNum(0)]

FileAbsent == [kind |-> "absent", doc |-> NoDoc]

FileUnreadable == [kind |-> "unreadable", doc |-> NoDoc]

FileMalformed == [kind |-> "malformed", doc |-> NoDoc]

FileJson(doc) == [kind |-> "json", doc |-> doc]

\* configJson[key] | default, read as a string
AsString(doc, key, default) ==
    IF key \in DOMAIN doc /\ doc[key].t = "str" THEN doc[key].s ELSE default

\* configJson[key] | default, read as int
AsInt(doc, key, default) ==
    IF key \in DOMAIN doc /\ doc[key].t = "num" THEN doc[key].n ELSE default

\* configJson[key] | default, read as unsigned long: a negative number does
\* not convert
AsULong(doc, key, default) ==
    IF key \in DOMAIN doc /\ doc[key].t = "num" /\ doc[key].n >= 0
    THEN doc[key].n ELSE default

\* the rooms loop of loadConfig leaving out the empty names
RoomsFromJsonSkipEmpty(doc) ==
    IF "rooms" \in DOMAIN doc /\ doc["rooms"].t = "arr"
    THEN LET a == SelectSeq(doc["rooms"].a,
                            LAMBDA v : v.t = "str" /\ v.s # <<>>)
             n == IF Len(a) > MAX_ROOMS THEN MAX_ROOMS ELSE Len(a)
         IN  [i \in 1..n |-> a[i].s]
    ELSE <<>>

\* the rooms loop of loadConfig: String(v | "") for each element, at most
\* MAX_ROOMS of them
RoomsFromJson(doc) ==
    IF "rooms" \in DOMAIN doc /\ doc["rooms"].t = "arr"
    THEN LET a == doc["rooms"].a
             n == IF Len(a) > MAX_ROOMS THEN MAX_ROOMS ELSE Len(a)
         IN  [i \in 1..n |-> IF a[i].t = "str" THEN a[i].s ELSE <<>>]
    ELSE <<>>

\* loadConfig: ok and the resulting cfg (c is cfg before the call)
loadConfig(c, file) ==
    IF file.kind # "json" THEN [ok |-> FALSE, cfg |-> c]
    ELSE LET doc == file.doc
             parsed == parseModeFromInput(AsString(doc, "mode", str_operate))
         IN  [ok |-> TRUE,
              cfg |-> normalizeConfig(
                 [url |-> AsString(doc, "url", INFLUXDB_URL_DEFAULT),
                  token |-> AsString(doc, "token", <<>>),
                  org |-> AsString(doc, "org", <<>>),
                  bucket |-> AsString(doc, "bucket", INFLUXDB_BUCKET_DEFAULT),
                  measurement |-> AsString(doc, "measurement", DEFAULT_MEASUREMENT),
                  deviceId |-> AsString(doc, "deviceId", <<>>),
                  alias |-> AsString(doc, "alias", <<>>),
                  tempResBits |-> AsInt(doc, "tempResBits", DEFAULT_TEMP_RES),
                  operateIntervalMs |->
                      AsULong(doc, "operateIntervalMs", DEFAULT_INTERVAL_MS),
                  identifyIntervalMs |->
                      AsULong(doc, "identifyIntervalMs", DEFAULT_IDENT_INTERVAL_MS),
                  currentMode |-> IF parsed.ok THEN parsed.setMode ELSE Operate,
                  rooms |-> RoomsFromJson(doc)])]

\* the JSON document saveConfig builds from cfg
ConfigJson(c) ==
    [k \in {"url", "token", "org", "bucket", "measurement", "deviceId", "alias",
            "tempResBits", "operateIntervalMs", "identifyIntervalMs", "mode",
            "rooms"} |->
        CASE k = "url" -> JStr(c.url)
          [] k = "token" -> JStr(c.token)
          [] k = "org" -> JStr(c.org)
          [] k = "bucket" -> JStr(c.bucket)
          [] k = "measurement" -> JStr(c.measurement)
          [] k = "deviceId" -> JStr(c.deviceId)
          [] k = "alias" -> JStr(c.alias)
          [] k = "tempResBits" -> JNum(c.tempResBits)
          [] k = "operateIntervalMs" -> JNum(c.operateIntervalMs)
          [] k = "identifyIntervalMs" -> JNum(c.identifyIntervalMs)
          [] k = "mode" -> JStr(modeToString(c.currentMode))
          [] OTHER -> JArr([i \in 1..Len(c.rooms) |-> JStr(c.rooms[i])])]

\* what LittleFS does with a write of /config.json: the file is opened and
\* written; open() fails; open() succeeds (truncating the file) and the
\* write of serializeJson() stores nothing, as on a full file system
FsWrites == "writes"

FsOpenFails == "openFails"

FsWriteFails == "writeFails"

\* saveConfig: ok and the file afterwards.  Only a failed open() returns
\* false: the result of serializeJson() is not looked at
saveConfig(c, file, writable) ==
    IF writable = FsOpenFails THEN [ok |-> FALSE, file |-> file]
    ELSE IF writable = FsWriteFails THEN [ok |-> TRUE, file |-> FileMalformed]
    ELSE [ok |-> TRUE, file |-> FileJson(ConfigJson(c))]

(***************************************************************************)
(* State                                                                   *)
(***************************************************************************)
VARIABLES
    pc,            \* "boot", "wifi", "connected" (in setup), "loop", "timer" (in
                   \* loop), "restart" (ESP.restart() was called)
    cfg,           \* Config cfg
    cfgLoaded,     \* bool cfgLoaded
    influxClient,  \* InfluxDBClient*: <<>> is nullptr, else <<the client>>
    lastSampleMs,  \* unsigned long lastSampleMs
    nowMs,         \* what millis() returns
    configFile,    \* /config.json
    fsWritable,    \* what a write of /config.json does: FsWrites, FsOpenFails
                   \* or FsWriteFails
    staMac,        \* what WiFi.macAddress() returns
    sensorsOnBus,  \* DS18B20 devices wired to the bus
    deviceCount,   \* temperatureBus.getDeviceCount(): the count begin() found
    wm,            \* setup's locals: the portal decision and the parameters
    calls          \* the calls to collaborators made by the last program step

vars == <<pc, cfg, cfgLoaded, influxClient, lastSampleMs, nowMs, configFile,
          fsWritable, staMac, sensorsOnBus, deviceCount, wm, calls>>

\* the part of the state the handlers and the cycle work on
Machine ==
    [cfg |-> cfg, influxClient |-> influxClient, lastSampleMs |-> lastSampleMs,
     configFile |-> configFile, deviceCount |-> deviceCount, calls |-> calls]

NoArgs == [k \in {} |-> <<>>]

NoCalls(op) ==
    [op |-> op, args |-> NoArgs, send |-> 0, normalizeConfig |-> 0, applyConfigToRuntime |-> 0,
     saveConfig |-> 0, validateConnection |-> 0, newClient |-> 0,
     deleteClient |-> 0, signalCycleFail |-> 0, signalCycleOk |-> 0,
     cycleStart |-> 0, requestTemperatures |-> 0, writePoint |-> <<>>,
     flushBuffer |-> 0, serial |-> <<>>, restart |-> 0,
     getAddress |-> <<>>, flushResult |-> <<>>, returned |-> <<>>]

Begin(m, op) == [m EXCEPT !.calls = NoCalls(op)]

\* a handler starts on the request's form
Request(m, op, args) == [m EXCEPT !.calls = [NoCalls(op) EXCEPT !.args = args]]

Called(m, what) == [m EXCEPT !.calls[what] = @ + 1]

Send(m, status) == [m EXCEPT !.calls.send = status]

\* Serial.println of one of the firmware's messages
Println(m, message) == [m EXCEPT !.calls.serial = Append(@, message)]

(***************************************************************************)
(* Influx client and runtime re-application                                *)
(***************************************************************************)
NewInfluxDBClient(c) ==
    [url |-> c.url, org |-> c.org, bucket |-> c.bucket, token |-> c.token]

\* if (influxClient) { delete influxClient; influxClient = nullptr; }
deleteInfluxClient(m) ==
    IF m.influxClient # <<>>
    THEN Called([m EXCEPT !.influxClient = <<>>], "deleteClient")
    ELSE m

\* initInfluxClient keeping a client that exists
initInfluxClientReuse(m) ==
    IF m.influxClient # <<>> THEN m
    ELSE Called([m EXCEPT !.influxClient = <<NewInfluxDBClient(m.cfg)>>],
                "newClient")

initInfluxClient(m) ==
    LET m1 == deleteInfluxClient(m)
    IN  Called([m1 EXCEPT !.influxClient = <<NewInfluxDBClient(m1.cfg)>>],
               "newClient")

\* applyConfigToRuntime restarting when the validation fails
applyConfigToRuntimeRestartOnFail(m, found, validateOk, now) ==
    LET m0 == Called([m EXCEPT !.deviceCount = found], "applyConfigToRuntime")
        m1 == IF m0.cfg.currentMode = Identify THEN deleteInfluxClient(m0)
              ELSE IF influxConfigIsUsable(m0.cfg)
                   THEN LET m2 == Called(initInfluxClient(m0), "validateConnection")
                        IN  IF ~validateOk
                            THEN Called(Called(Println(m2, "Influx validation failed"),
                                               "signalCycleFail"), "restart")
                            ELSE Println(m2, "Influx connected")
                   ELSE deleteInfluxClient(m0)
    IN  [m1 EXCEPT !.lastSampleMs = now]

\* applyConfigToRuntime giving up the client when the validation fails
applyConfigToRuntimeDropOnFail(m, found, validateOk, now) ==
    LET m0 == Called([m EXCEPT !.deviceCount = found], "applyConfigToRuntime")
        m1 == IF m0.cfg.currentMode = Identify THEN deleteInfluxClient(m0)
              ELSE IF influxConfigIsUsable(m0.cfg)
                   THEN LET m2 == Called(initInfluxClient(m0), "validateConnection")
                        IN  IF ~validateOk
                            THEN deleteInfluxClient(
                                     Called(Println(m2, "Influx validation failed"),
                                            "signalCycleFail"))
                            ELSE Println(m2, "Influx connected")
                   ELSE deleteInfluxClient(m0)
    IN  [m1 EXCEPT !.lastSampleMs = now]

\* found: the devices temperatureBus.begin() finds; validateOk: what
\* validateConnection() returns if called; now: millis()
applyConfigToRuntime(m, found, validateOk, now) ==
    LET m0 == Called([m EXCEPT !.deviceCount = found], "applyConfigToRuntime")
        m1 == IF m0.cfg.currentMode = Identify THEN deleteInfluxClient(m0)
              ELSE IF influxConfigIsUsable(m0.cfg)
                   THEN LET m2 == Called(initInfluxClient(m0), "validateConnection")
                        IN  IF ~validateOk
                            THEN Called(Println(m2, "Influx validation failed"),
                                        "signalCycleFail")
                            ELSE Println(m2, "Influx connected")
                   ELSE deleteInfluxClient(m0)
    IN  [m1 EXCEPT !.lastSampleMs = now]

\* what validateConnection() may return when applyConfigToRuntime runs on
\* cfg c: nothing to choose when it is not called
ValidateResults(c) ==
    IF c.currentMode # Identify /\ influxConfigIsUsable(c) THEN BOOLEAN ELSE {TRUE}

\* the runtime re-applied before the normalisation
ApplyNormalizeSave(m, found, validateOk, now, writable) ==
    LET m1 == applyConfigToRuntime(m, found, validateOk, now)
        m2 == Called([m1 EXCEPT !.cfg = normalizeConfig(m1.cfg)], "normalizeConfig")
        sv == saveConfig(m2.cfg, m2.configFile, writable)
        m3 == Called([m2 EXCEPT !.configFile = sv.file], "saveConfig")
    IN  IF ~sv.ok THEN Send(m3, 500) ELSE Send(m3, 200)

\* normalizeConfig(); applyConfigToRuntime(); saveConfig(); and the response
NormalizeApplySave(m, found, validateOk, now, writable) ==
    LET m1 == Called([m EXCEPT !.cfg = normalizeConfig(m.cfg)], "normalizeConfig")
        m2 == applyConfigToRuntime(m1, found, validateOk, now)
        sv == saveConfig(m2.cfg, m2.configFile, writable)
        m3 == Called([m2 EXCEPT !.configFile = sv.file], "saveConfig")
    IN  IF ~sv.ok THEN Send(m3, 500) ELSE Send(m3, 200)

(***************************************************************************)
(* Web handlers.  args is the request's form: a function from the names of *)
(* the fields present to their values.                                     *)
(***************************************************************************)
hasArg(args, key) == key \in DOMAIN args

\* lines 509-531 of handleSave: the fields taken from the form
SaveFields(c, args) ==
    LET parsed == IF hasArg(args, "mode") THEN parseModeFromInput(args["mode"])
                  ELSE [ok |-> FALSE, setMode |-> Operate]
    IN  [c EXCEPT
           !.alias = IF hasArg(args, "alias") THEN args["alias"] ELSE @,
           !.measurement =
               IF hasArg(args, "measurement") THEN args["measurement"] ELSE @,
           !.operateIntervalMs =
               IF hasArg(args, "operateIntervalMs")
               THEN toInt(args["operateIntervalMs"]) ELSE @,
           !.identifyIntervalMs =
               IF hasArg(args, "identifyIntervalMs")
               THEN toInt(args["identifyIntervalMs"]) ELSE @,
           !.tempResBits =
               IF hasArg(args, "tempResBits") THEN toInt(args["tempResBits"]) ELSE @,
           !.currentMode = IF parsed.ok THEN parsed.setMode ELSE @,
           !.url = IF hasArg(args, "url") THEN args["url"] ELSE @,
           !.org = IF hasArg(args, "org") THEN args["org"] ELSE @,
           !.bucket = IF hasArg(args, "bucket") THEN args["bucket"] ELSE @,
           !.token = IF hasArg(args, "token") THEN args["token"] ELSE @]

handleSave(m, args, mac, found, validateOk, now, writable) ==
    LET c1 == SaveFields(m.cfg, args)
        c2 == enforceDeviceIdFromStaMac(c1, mac).cfg
    IN  NormalizeApplySave([m EXCEPT !.cfg = c2], found, validateOk, now, writable)

handleTest(m, validateOk) ==
    IF ~influxConfigIsUsable(m.cfg) THEN Send(m, 400)
    ELSE LET m1 == IF m.influxClient = <<>> THEN initInfluxClient(m) ELSE m
         IN  Send(Called(m1, "validateConnection"), 200)

\* count = getDeviceCount(), clamped to 0..MAX_ROOMS
ClampCount(count) ==
    IF count < 0 THEN 0 ELSE IF count > MAX_ROOMS THEN MAX_ROOMS ELSE count

handleApiTemps(m) == Send(Called(m, "requestTemperatures"), 200)

\* std::vector::resize(count) when the vector is shorter
handleRoomsForm(m) ==
    LET count == ClampCount(m.deviceCount)
        rooms == m.cfg.rooms
    IN  Send([m EXCEPT !.cfg.rooms =
                 IF Len(rooms) < count
                 THEN rooms \o [i \in 1..(count - Len(rooms)) |-> <<>>]
                 ELSE rooms], 200)

handleConfigForm(m) == Send(m, 200)

str_room == <<"r","o","o","m">>

\* lines 704-714 of handleSaveRooms: the rooms taken from the form
RoomFields(args, count) ==
    [i \in 1..count |->
        LET key == str_room \o IntToStr(i)
        IN  IF hasArg(args, key) THEN args[key] ELSE <<>>]

\* handleSaveRooms without rooms.clear(): a name whose field is absent stays
handleSaveRoomsKeepAbsent(m, args, mac, found, validateOk, now, writable) ==
    LET count == ClampCount(m.deviceCount)
        rooms == [i \in 1..count |->
                     LET key == str_room \o IntToStr(i)
                     IN  IF hasArg(args, key) THEN args[key]
                         ELSE IF i <= Len(m.cfg.rooms) THEN m.cfg.rooms[i]
                         ELSE <<>>]
        c2 == enforceDeviceIdFromStaMac([m.cfg EXCEPT !.rooms = rooms], mac).cfg
    IN  NormalizeApplySave([m EXCEPT !.cfg = c2], found, validateOk, now, writable)

handleSaveRooms(m, args, mac, found, validateOk, now, writable) ==
    LET rooms == RoomFields(args, ClampCount(m.deviceCount))
        c2 == enforceDeviceIdFromStaMac([m.cfg EXCEPT !.rooms = rooms], mac).cfg
    IN  NormalizeApplySave([m EXCEPT !.cfg = c2], found, validateOk, now, writable)

(***************************************************************************)
(* loop(): after httpServer.handleClient(), the timer-gated upload cycle.  *)
(* env.sensor[i] tells what the bus and the client do for sensor index     *)
(* i-1 in this cycle: "noaddr" (getAddress fails), "ok", "disconnected"    *)
(* (getTempC returns DEVICE_DISCONNECTED_C), "writefail" (writePoint       *)
(* returns false); env.flushOk is what flushBuffer() returns.              *)
(***************************************************************************)
SensorClasses == {"noaddr", "ok", "disconnected", "writefail"}

\* the interval test on signed long
IntervalElapsedSigned(m, now) ==
    ~((now - m.lastSampleMs) < m.cfg.operateIntervalMs)

\* line 921: the interval has elapsed
IntervalElapsed(m, now) ==
    ~ULt(USub(now, m.lastSampleMs), m.cfg.operateIntervalMs)

\* the interval gate without the mode gate
TimerDueAnyMode(m, now) == IntervalElapsed(m, now)

\* lines 918-921: the cycle starts
\* the gate with a guard against a counter value below the stamp
TimerDueNoWrap(m, now) ==
    /\ m.cfg.currentMode # Identify
    /\ ~ULt(now, m.lastSampleMs)
    /\ IntervalElapsed(m, now)

TimerDue(m, now) == m.cfg.currentMode # Identify /\ IntervalElapsed(m, now)

\* lines 924 and 931: the preconditions of the cycle
InfluxReady(m) == influxConfigIsUsable(m.cfg) /\ m.influxClient # <<>>

\* the cycle without the check of the sensor count
SensorsPresentUnchecked(m) == TRUE

SensorsPresent(m) == m.deviceCount > 0

\* the cycle gets past the early returns of lines 918-935
ReachesSensors(m, now) ==
    /\ TimerDue(m, now)
    /\ InfluxReady(m)
    /\ SensorsPresent(m)

\* lines 940-957: one writePoint per index whose address resolves
RECURSIVE SensorLoop(_, _, _, _)
SensorLoop(m, sensor, sensorIndex, count) ==
    IF sensorIndex >= count THEN m
    ELSE LET class == sensor[sensorIndex + 1]
             point == [sensorIndex |-> sensorIndex,
                       valid |-> class # "disconnected",
                       ok |-> class # "writefail"]
             m0 == [m EXCEPT !.calls.getAddress =
                       Append(@, [sensorIndex |-> sensorIndex,
                                  ok |-> class # "noaddr"])]
             m1 == IF class = "noaddr" THEN m0
                   ELSE LET m2 == [m0 EXCEPT !.calls.writePoint = Append(@, point)]
                        IN  IF ~point.ok THEN Println(m2, "Buffer/write failed")
                            ELSE m2
         IN  SensorLoop(m1, sensor, sensorIndex + 1, count)

\* loopTimer signalling failure also when a submission failed
loopTimerCountsPoints(m, now, env) ==
    IF ~TimerDue(m, now) THEN m
    ELSE LET m1 == Called([m EXCEPT !.lastSampleMs = now], "cycleStart")
         IN  IF ~InfluxReady(m1)
             THEN Called(Println(m1, "Skip upload"), "signalCycleFail")
             ELSE IF ~SensorsPresent(m1)
             THEN Called(Println(m1, "No sensors."), "signalCycleFail")
             ELSE LET count == ClampCount(m1.deviceCount)
                      m2 == Called(m1, "requestTemperatures")
                      m3 == [Called(SensorLoop(m2, env.sensor, 0, count),
                                    "flushBuffer")
                                EXCEPT !.calls.flushResult = Append(@, env.flushOk)]
                      failed == \E i \in 1..Len(m3.calls.writePoint) :
                                   ~m3.calls.writePoint[i].ok
                  IN  IF ~env.flushOk \/ failed
                      THEN Called(Println(m3, "Batch flush failed"),
                                  "signalCycleFail")
                      ELSE Called(m3, "signalCycleOk")

loopTimer(m, now, env) ==
    IF ~TimerDue(m, now) THEN m
    ELSE LET m1 == Called([m EXCEPT !.lastSampleMs = now], "cycleStart")
         IN  IF ~InfluxReady(m1)
             THEN Called(Println(m1, "Skip upload"), "signalCycleFail")
             ELSE IF ~SensorsPresent(m1)
             THEN Called(Println(m1, "No sensors."), "signalCycleFail")
             ELSE LET count == ClampCount(m1.deviceCount)
                      m2 == Called(m1, "requestTemperatures")
                      m3 == [Called(SensorLoop(m2, env.sensor, 0, count),
                                    "flushBuffer")
                                EXCEPT !.calls.flushResult = Append(@, env.flushOk)]
                  IN  IF ~env.flushOk
                      THEN Called(Println(m3, "Batch flush failed"),
                                  "signalCycleFail")
                      ELSE Called(m3, "signalCycleOk")

(***************************************************************************)
(* Bounds and inputs                                                       *)
(***************************************************************************)
\* the largest number of sensors on the bus, apart from one bus with more
\* than MAX_ROOMS of them
MaxSensors == 1

\* sensors beyond the first MaxSensors always answer
CycleEnvs(count) ==
    LET w == IF count < MaxSensors THEN count ELSE MaxSensors
    IN  {[sensor |-> [i \in 1..count |-> IF i <= w THEN f[i] ELSE "ok"],
          flushOk |-> b] : f \in [1..w -> SensorClasses], b \in BOOLEAN}

NoEnv == [sensor |-> <<>>, flushOk |-> TRUE]

\* values of millis(): the counter is taken mod 2^32, so each can follow the
\* other
ClockPoints == {0, 5000}

str_u == <<" ","u"," ">>

str_o == <<"o">>

str_t == <<"t","\t">>

str_a == <<" ","a"," ">>

str_m == <<"m"," ">>

SaveRequests ==
    { NoArgs,
      [k \in {"mode"} |-> <<"I","d","e","n","t","i","f","y">>],
      [k \in {"mode"} |-> <<" ","o","p","e","r","a","t","E"," ">>],
      ("mode" :> <<"f","o","o">>) @@ ("deviceId" :> <<"x">>),
      ("url" :> str_u) @@ ("org" :> str_o) @@ ("bucket" :> <<" ">>)
          @@ ("token" :> str_t),
      ("org" :> <<>>) @@ ("token" :> <<" ">>) @@ ("url" :> <<>>),
      ("operateIntervalMs" :> <<"-","1">>) @@ ("identifyIntervalMs" :> <<"a","b","c">>)
          @@ ("tempResBits" :> <<"1","3">>) @@ ("alias" :> str_a)
          @@ ("measurement" :> str_m),
      ("operateIntervalMs" :> <<"5","0","0","0">>)
          @@ ("identifyIntervalMs" :> <<"9","9","9","9","9","9","9","9","9","9","9">>)
          @@ ("tempResBits" :> <<"8">>) @@ ("alias" :> <<>>)
          @@ ("measurement" :> <<" ">>),
      ("operateIntervalMs" :> <<"4","9","9","9">>)
          @@ ("identifyIntervalMs" :> <<" ","2","5","0","0","x">>)
          @@ ("tempResBits" :> <<"1","1">>) @@ ("alias" :> str_a)
          @@ ("measurement" :> str_m) }

RoomsRequests ==
    { NoArgs,
      ((str_room \o <<"1">>) :> <<"K">>) @@ ((str_room \o <<"2">>) :> <<" ">>),
      ((str_room \o <<"2">>) :> <<" ","B"," ">>)
          @@ ((str_room \o <<"3","3">>) :> <<"X">>) }

\* what the operator types into the portal: the parameters changed
PortalEdits ==
    { NoArgs,
      ("org" :> str_o) @@ ("token" :> str_t),
      ("tempResBits" :> <<"1","2","3","4">>) @@ ("operateIntervalMs" :> <<"x">>)
          @@ ("measurement" :> <<>>) }

\* a file written by an earlier run on another device, with three rooms
FileSaved ==
    FileJson(ConfigJson([normalizeConfig(ConfigAtConstruction) EXCEPT
        !.org = str_o, !.token = <<"t">>,
        !.deviceId = str_esp32 \o <<"A","B","C","D","E","F">>,
        !.rooms = <<<<"K">>, <<>>, <<"B">>>>]))

\* a file edited by hand
FileEdited ==
    FileJson(("mode" :> JStr(<<"I","D","E","N","T","I","F","Y">>))
        @@ ("tempResBits" :> JNum(99)) @@ ("operateIntervalMs" :> JNum(-5))
        @@ ("rooms" :> JArr(<<JStr(<<"K">>), JNum(5)>>)))

MacColons == <<"8","8",":","5","7",":","2","1",":","c","d",":","4","E",":","E","4">>

\* the boots explored: the file found, whether it can be written, the MAC
\* string and the sensors on the bus
Boots ==
    { [file |-> FileAbsent, writable |-> FsWrites, mac |-> MacColons,
       sensors |-> MaxSensors],
      [file |-> FileSaved, writable |-> FsWrites, mac |-> MacColons,
       sensors |-> MaxSensors],
      [file |-> FileSaved, writable |-> FsOpenFails, mac |-> <<>>, sensors |-> 0],
      [file |-> FileSaved, writable |-> FsWriteFails, mac |-> MacColons,
       sensors |-> 0],
      [file |-> FileEdited, writable |-> FsWrites, mac |-> MacColons,
       sensors |-> MAX_ROOMS + 1] }

(***************************************************************************)
(* setup()                                                                 *)
(***************************************************************************)
NoParams ==
    [measurement |-> <<>>, operateIntervalMs |-> <<>>, tempResBits |-> <<>>,
     url |-> <<>>, org |-> <<>>, bucket |-> <<>>, token |-> <<>>]

NoWm ==
    [portal |-> FALSE, interactive |-> FALSE, connected |-> FALSE,
     params |-> NoParams]

\* the defaults without the assignment of identifyIntervalMs
DefaultConfigNoIdentifyInterval ==
    [url |-> INFLUXDB_URL_DEFAULT, bucket |-> INFLUXDB_BUCKET_DEFAULT,
     measurement |-> DEFAULT_MEASUREMENT, deviceId |-> <<>>, alias |-> <<>>,
     tempResBits |-> DEFAULT_TEMP_RES, operateIntervalMs |-> DEFAULT_INTERVAL_MS,
     identifyIntervalMs |-> ConfigAtConstruction.identifyIntervalMs,
     org |-> <<>>, token |-> <<>>, currentMode |-> Operate, rooms |-> <<>>]

\* lines 805-820: the defaults taken when loadConfig failed
DefaultConfig ==
    [url |-> INFLUXDB_URL_DEFAULT, bucket |-> INFLUXDB_BUCKET_DEFAULT,
     measurement |-> DEFAULT_MEASUREMENT, deviceId |-> <<>>, alias |-> <<>>,
     tempResBits |-> DEFAULT_TEMP_RES, operateIntervalMs |-> DEFAULT_INTERVAL_MS,
     identifyIntervalMs |-> DEFAULT_IDENT_INTERVAL_MS, org |-> <<>>,
     token |-> <<>>, currentMode |-> Operate, rooms |-> <<>>]

\* the lengths of the WiFiManagerParameters
ParamLength ==
    [measurement |-> 32, operateIntervalMs |-> 11, tempResBits |-> 3,
     url |-> 128, org |-> 64, bucket |-> 64, token |-> 160]

\* lines 835-851: the parameters as seeded from cfg
SeedParams(c) ==
    [measurement |-> Truncate(c.measurement, ParamLength.measurement),
     operateIntervalMs |->
         Truncate(Truncate(ULongToStr(c.operateIntervalMs), 11),
                  ParamLength.operateIntervalMs),
     tempResBits |->
         Truncate(Truncate(IntToStr(c.tempResBits), 3), ParamLength.tempResBits),
     url |-> Truncate(c.url, ParamLength.url),
     org |-> Truncate(c.org, ParamLength.org),
     bucket |-> Truncate(c.bucket, ParamLength.bucket),
     token |-> Truncate(c.token, ParamLength.token)]

\* the portal stores what the operator typed, cut to the parameter's length
EditParams(params, edits) ==
    [k \in DOMAIN params |->
        IF k \in DOMAIN edits THEN Truncate(edits[k], ParamLength[k])
        ELSE params[k]]

\* shouldStartPortal asking only whether the configuration was loaded
shouldStartPortalLoadedOnly(loaded, c, buttonHeld) ==
    IF ~loaded THEN TRUE ELSE buttonHeld

\* buttonHeld: GPIO0 reads LOW during the whole 10 s window
shouldStartPortal(loaded, c, buttonHeld) ==
    IF ~loaded THEN TRUE
    ELSE IF ~influxConfigIsUsable(c) /\ c.currentMode = Operate THEN TRUE
    ELSE buttonHeld

\* lines 881-887: the values taken over from the parameters
TakeParams(c, params) ==
    [c EXCEPT !.measurement = params.measurement,
              !.operateIntervalMs = toInt(params.operateIntervalMs),
              !.tempResBits = toInt(params.tempResBits),
              !.url = params.url, !.org = params.org,
              !.bucket = params.bucket, !.token = params.token]

Commit(m) ==
    /\ cfg' = m.cfg
    /\ influxClient' = m.influxClient
    /\ lastSampleMs' = m.lastSampleMs
    /\ configFile' = m.configFile
    /\ deviceCount' = m.deviceCount
    /\ calls' = m.calls

\* lines 803-830
SetupLoadConfig ==
    /\ pc = "boot"
    /\ LET m == Begin(Machine, "setupLoadConfig")
           r == loadConfig(m.cfg, m.configFile)
           c1 == IF r.ok THEN r.cfg ELSE normalizeConfig(DefaultConfig)
           e == enforceDeviceIdFromStaMac(c1, staMac)
           c2 == normalizeConfig(e.cfg)
           m1 == [m EXCEPT !.cfg = c2]
           m2 == IF e.changed \/ ~r.ok
                 THEN Called([m1 EXCEPT !.configFile =
                                 saveConfig(c2, m.configFile, fsWritable).file],
                             "saveConfig")
                 ELSE m1
       IN  /\ Commit(m2)
           /\ cfgLoaded' = r.ok
    /\ pc' = "wifi"
    /\ UNCHANGED <<nowMs, fsWritable, staMac, sensorsOnBus, wm>>

\* lines 832-877: the portal decision and the association.  interactive: a
\* portal was shown (startConfigPortal, or autoConnect falling back to it)
SetupWifi ==
    /\ pc = "wifi"
    /\ \E buttonHeld \in BOOLEAN, wifiOk \in BOOLEAN, interactive \in BOOLEAN,
          edits \in PortalEdits :
          LET portal == shouldStartPortal(cfgLoaded, cfg, buttonHeld)
              m == Begin(Machine, "setupWifi")
          IN  /\ portal => interactive
              /\ ~interactive => edits = NoArgs
              /\ wm' = [portal |-> portal, interactive |-> interactive,
                        connected |-> wifiOk,
                        params |-> EditParams(SeedParams(cfg), edits)]
              /\ IF wifiOk
                 THEN /\ Commit(m)
                      /\ pc' = "connected"
                 ELSE /\ Commit(Called(Called(m, "signalCycleFail"), "restart"))
                      /\ pc' = "restart"
    /\ UNCHANGED <<cfgLoaded, nowMs, fsWritable, staMac, sensorsOnBus>>

\* lines 880-904
SetupRuntime ==
    /\ pc = "connected"
    /\ \E validateOk \in ValidateResults(normalizeConfig(TakeParams(cfg, wm.params))) :
          LET m == Begin(Machine, "setupRuntime")
              c1 == TakeParams(m.cfg, wm.params)
              c2 == normalizeConfig(enforceDeviceIdFromStaMac(c1, staMac).cfg)
              m1 == Called([m EXCEPT !.cfg = c2], "normalizeConfig")
              m2 == Called([m1 EXCEPT !.configFile =
                               saveConfig(c2, m.configFile, fsWritable).file],
                           "saveConfig")
          IN  Commit(applyConfigToRuntime(m2, sensorsOnBus, validateOk, nowMs))
    /\ pc' = "loop"
    /\ wm' = NoWm
    /\ UNCHANGED <<cfgLoaded, nowMs, fsWritable, staMac, sensorsOnBus>>

(***************************************************************************)
(* loop(): httpServer.handleClient() serves at most one pending request    *)
(* (pc "loop" -> "timer"), then the timer check runs (pc "timer" ->        *)
(* "loop")                                                                 *)
(***************************************************************************)
\* a request handler has run inside handleClient()
Served(m) ==
    /\ Commit(m)
    /\ pc' = "timer"
    /\ UNCHANGED <<cfgLoaded, nowMs, fsWritable, staMac, sensorsOnBus, wm>>

\* handleClient() with no request pending
NoRequest ==
    /\ pc = "loop"
    /\ Served(Begin(Machine, "noRequest"))

HandleConfigForm ==
    /\ pc = "loop"
    /\ Served(handleConfigForm(Begin(Machine, "handleConfigForm")))

HandleSave ==
    /\ pc = "loop"
    /\ \E args \in SaveRequests :
       \E validateOk \in ValidateResults(normalizeConfig(SaveFields(cfg, args))) :
          Served(handleSave(Request(Machine, "handleSave", args), args, staMac,
                            sensorsOnBus, validateOk, nowMs, fsWritable))

HandleTest ==
    /\ pc = "loop"
    /\ \E validateOk \in (IF influxConfigIsUsable(cfg) THEN BOOLEAN ELSE {TRUE}) :
          Served(handleTest(Begin(Machine, "handleTest"), validateOk))

HandleApiTemps ==
    /\ pc = "loop"
    /\ Served(handleApiTemps(Begin(Machine, "handleApiTemps")))

HandleRoomsForm ==
    /\ pc = "loop"
    /\ Served(handleRoomsForm(Begin(Machine, "handleRoomsForm")))

HandleSaveRooms ==
    /\ pc = "loop"
    /\ \E args \in RoomsRequests, validateOk \in ValidateResults(cfg) :
          Served(handleSaveRooms(Request(Machine, "handleSaveRooms", args), args,
                                 staMac,
                                 sensorsOnBus, validateOk, nowMs, fsWritable))

\* handleReboot and handleWifiReset: answer, then ESP.restart().  The process
\* ends; the next one starts from Init with the file left behind
HandleReboot ==
    /\ pc = "loop"
    /\ Commit(Called(Send(Begin(Machine, "handleReboot"), 200), "restart"))
    /\ pc' = "restart"
    /\ UNCHANGED <<cfgLoaded, nowMs, fsWritable, staMac, sensorsOnBus, wm>>

\* lines 918-966: the rest of loop() after handleClient()
EnvsFor(m) ==
    IF ReachesSensors(m, nowMs) THEN CycleEnvs(ClampCount(m.deviceCount))
    ELSE {NoEnv}

LoopTimer ==
    /\ pc = "timer"
    /\ \E env \in EnvsFor(Machine) :
          Commit(loopTimer(Begin(Machine, "loopTimer"), nowMs, env))
    /\ pc' = "loop"
    /\ UNCHANGED <<cfgLoaded, nowMs, fsWritable, staMac, sensorsOnBus, wm>>

\* millis() moves on
Tick ==
    /\ pc \in {"connected", "loop", "timer"}
    /\ \E t \in ClockPoints \ {nowMs} : nowMs' = t
    /\ UNCHANGED <<pc, cfg, cfgLoaded, influxClient, lastSampleMs, configFile,
                   fsWritable, staMac, sensorsOnBus, deviceCount, wm, calls>>

Init ==
    /\ pc = "boot"
    /\ cfg = ConfigAtConstruction
    /\ cfgLoaded = FALSE
    /\ influxClient = <<>>
    /\ lastSampleMs = 0
    /\ nowMs = 0
    /\ deviceCount = 0
    /\ wm = NoWm
    /\ calls = NoCalls("construct")
    /\ \E boot \in Boots :
          /\ configFile = boot.file
          /\ fsWritable = boot.writable
          /\ staMac = boot.mac
          /\ sensorsOnBus = boot.sensors

Next ==
    \/ SetupLoadConfig
    \/ SetupWifi
    \/ SetupRuntime
    \/ NoRequest
    \/ HandleConfigForm
    \/ HandleSave
    \/ HandleTest
    \/ HandleApiTemps
    \/ HandleRoomsForm
    \/ HandleSaveRooms
    \/ HandleReboot
    \/ LoopTimer
    \/ Tick

Spec == Init /\ [][Next]_vars

(***************************************************************************)
(* The pure functions on their own: normalizeConfig and                    *)
(* enforceDeviceIdFromStaMac applied to arbitrary inputs                   *)
(***************************************************************************)
HexChars == <<"0","1","2","3","4","5","6","7","8","9","A","B","C","D","E","F">>

\* "%02X" of one byte
Hex2(b) == <<HexChars[(b \div 16) + 1], HexChars[(b % 16) + 1]>>

\* WiFi.macAddress() of a 6-byte address: "88:57:21:CD:4E:E4"
MacAddressString(mac) ==
    Hex2(mac[1]) \o <<":">> \o Hex2(mac[2]) \o <<":">> \o Hex2(mac[3]) \o <<":">>
        \o Hex2(mac[4]) \o <<":">> \o Hex2(mac[5]) \o <<":">> \o Hex2(mac[6])

FnMacBytes ==
    {<<136, 87, 33, 205, 78, 228>>, <<0, 0, 0, 0, 0, 0>>, <<255, 1, 16, 10, 11, 171>>}

\* the renderings of the addresses, and two strings that are no rendering
FnMacs ==
    {MacAddressString(mac) : mac \in FnMacBytes}
        \cup {<<>>, <<"8","8",":","5","7">>}

FnStrings == {<<>>, <<" ">>, <<" ","x","\t">>}

\* tempResBits, operateIntervalMs, identifyIntervalMs
FnNumbers ==
    {<<0, 0, 0>>, <<8, 4999, 1999>>, <<9, 5000, 2000>>, <<12, 3600000, 3600000>>,
     <<13, 3600001, 3600001>>, <<-1, -1, LONG_MIN>>, <<LONG_MAX, LONG_MAX, -2>>,
     <<11, 30000, 1999>>}

FnRooms ==
    {<<<<" ","K">>, <<>>>>, <<<<"K">>, <<" ">>, <<" ","B"," ">>>>,
     [i \in 1..(MAX_ROOMS + 1) |-> <<"r">>]}

\* sensor indices asked for
FnIndices == {-1, 0, 1, 2, 5, MAX_ROOMS - 1, MAX_ROOMS}

FnConfigs ==
    {[url |-> u, token |-> t, org |-> o, bucket |-> b, measurement |-> a,
      deviceId |-> a, alias |-> a, tempResBits |-> n[1],
      operateIntervalMs |-> n[2], identifyIntervalMs |-> n[3],
      currentMode |-> md, rooms |-> r] :
        u \in FnStrings, t \in FnStrings, o \in FnStrings, b \in FnStrings,
        a \in FnStrings, n \in FnNumbers, md \in Modes, r \in FnRooms}

FnInit ==
    /\ pc = "fn"
    /\ cfg \in FnConfigs
    /\ staMac \in FnMacs
    /\ cfgLoaded = FALSE
    /\ influxClient = <<>>
    /\ lastSampleMs = 0
    /\ nowMs = 0
    /\ configFile = FileAbsent
    /\ fsWritable = FsWrites
    /\ sensorsOnBus = 0
    /\ deviceCount = 0
    /\ wm = NoWm
    /\ calls = NoCalls("construct")

FnNormalize ==
    /\ pc = "fn"
    /\ pc' = "fnNormalized"
    /\ cfg' = normalizeConfig(cfg)
    /\ calls' = NoCalls("normalizeConfig")
    /\ UNCHANGED <<cfgLoaded, influxClient, lastSampleMs, nowMs, configFile,
                   fsWritable, staMac, sensorsOnBus, deviceCount, wm>>

FnEnforceDeviceId ==
    /\ pc = "fn"
    /\ pc' = "fnEnforced"
    /\ cfg' = enforceDeviceIdFromStaMac(cfg, staMac).cfg
    /\ calls' = NoCalls("enforceDeviceIdFromStaMac")
    /\ UNCHANGED <<cfgLoaded, influxClient, lastSampleMs, nowMs, configFile,
                   fsWritable, staMac, sensorsOnBus, deviceCount, wm>>

\* saveConfig() of a normalized configuration, then loadConfig() into the
\* cfg of a new process
FnReload ==
    /\ pc = "fnNormalized"
    /\ pc' = "fnReloaded"
    /\ LET sv == saveConfig(cfg, configFile, fsWritable)
           r == loadConfig(ConfigAtConstruction, sv.file)
       IN  /\ configFile' = sv.file
           /\ cfgLoaded' = r.ok
           /\ cfg' = r.cfg
    /\ calls' = NoCalls("loadConfig")
    /\ UNCHANGED <<influxClient, lastSampleMs, nowMs, fsWritable, staMac,
                   sensorsOnBus, deviceCount, wm>>

\* roomForSensorIndex() on the normalized configuration, as the cycle and
\* the pages call it
FnRoomName ==
    /\ pc = "fnNormalized"
    /\ pc' = "fnRoom"
    /\ \E sensorIndex \in FnIndices :
          calls' = [NoCalls("roomForSensorIndex") EXCEPT !.returned =
                       <<[sensorIndex |-> sensorIndex,
                          room |-> roomForSensorIndex(cfg, sensorIndex)]>>]
    /\ UNCHANGED <<cfg, cfgLoaded, influxClient, lastSampleMs, nowMs, configFile,
                   fsWritable, staMac, sensorsOnBus, deviceCount, wm>>

FnNext == FnNormalize \/ FnEnforceDeviceId \/ FnReload \/ FnRoomName

SpecFn == FnInit /\ [][FnNext]_vars

(***************************************************************************)
(* Properties                                                              *)
(***************************************************************************)
\* between two events of the main loop
AtEventBoundary == pc \in {"loop", "timer"}

\* the step is a /save request served by handleSave
SaveStep == pc = "loop" /\ pc' = "timer" /\ calls'.op = "handleSave"

\* the step is the timer check of loop()
TimerStep == pc = "timer" /\ pc' = "loop" /\ calls'.op = "loopTimer"

\* C1: while the mode is Identify at an event boundary, the upload client
\* handle is absent
C1_IdentifyClientAbsent ==
    (AtEventBoundary /\ cfg.currentMode = Identify) => influxClient = <<>>

\* C2: a loop iteration in Identify mode starts no cycle, triggers no
\* conversion, submits no point and issues no flush
C2_IdentifyNoUploadWork ==
    [][(TimerStep /\ cfg.currentMode = Identify) =>
          /\ calls'.cycleStart = 0
          /\ calls'.requestTemperatures = 0
          /\ calls'.writePoint = <<>>
          /\ calls'.flushBuffer = 0
          /\ lastSampleMs' = lastSampleMs]_vars

\* a timer check has run in Identify mode with a client created by /test, an
\* upload-capable configuration, sensors on the bus and the interval elapsed
C2_Witness ==
    /\ pc = "loop"
    /\ calls.op = "loopTimer"
    /\ cfg.currentMode = Identify
    /\ influxClient # <<>>
    /\ influxConfigIsUsable(cfg)
    /\ deviceCount > 0
    /\ ~ULt(USub(nowMs, lastSampleMs), cfg.operateIntervalMs)

\* C3: a /save that ends in Operate mode with an upload-capable
\* configuration deletes the client that existed, builds a new one from the
\* current url, org, bucket and token, and validates the connection once
C3_SaveOperateRebuildsClient ==
    [][(SaveStep /\ cfg'.currentMode = Operate /\ influxConfigIsUsable(cfg')) =>
          /\ influxClient' = <<[url |-> cfg'.url, org |-> cfg'.org,
                                bucket |-> cfg'.bucket, token |-> cfg'.token]>>
          /\ calls'.newClient = 1
          /\ calls'.validateConnection = 1
          /\ calls'.deleteClient = (IF influxClient # <<>> THEN 1 ELSE 0)]_vars

\* a /save asking for Operate has replaced an existing client
C3_Witness ==
    /\ pc = "timer"
    /\ calls.op = "handleSave"
    /\ hasArg(calls.args, "mode")
    /\ cfg.currentMode = Operate
    /\ calls.deleteClient = 1
    /\ calls.newClient = 1
    /\ calls.validateConnection = 1
    /\ influxClient # <<>>

\* C4: after boot the mode changes only in a /save whose mode field, trimmed
\* and lowercased, is "operate" or "identify", and then becomes that mode
C4_ModeChangesOnlyBySave ==
    [][AtEventBoundary =>
          LET given == SaveStep /\ hasArg(calls'.args, "mode")
              token == IF given THEN toLowerCase(trim(calls'.args["mode"]))
                       ELSE <<>>
          IN  cfg'.currentMode =
                  IF token = str_operate THEN Operate
                  ELSE IF token = str_identify THEN Identify
                  ELSE cfg.currentMode]_vars

\* a /save with the mode field "Identify" has put the device in Identify
C4_Witness ==
    /\ pc = "timer"
    /\ calls.op = "handleSave"
    /\ hasArg(calls.args, "mode")
    /\ calls.args["mode"] = <<"I","d","e","n","t","i","f","y">>
    /\ cfg.currentMode = Identify

\* the field of the last /save as a number, when it lies in lo..hi
GivenInRange(key, lo, hi) ==
    /\ calls.op = "handleSave"
    /\ hasArg(calls.args, key)
    /\ toInt(calls.args[key]) >= lo
    /\ toInt(calls.args[key]) <= hi

\* C5: at every event boundary the three numeric fields are inside their
\* ranges and rooms has at most 32 entries; a /save value inside its range
\* is stored as given
C5_RangesAtEventBoundary ==
    AtEventBoundary =>
        /\ cfg.tempResBits >= 9 /\ cfg.tempResBits <= 12
        /\ cfg.operateIntervalMs >= 5000 /\ cfg.operateIntervalMs <= 3600000
        /\ cfg.identifyIntervalMs >= 2000 /\ cfg.identifyIntervalMs <= 3600000
        /\ Len(cfg.rooms) <= 32
        /\ GivenInRange("tempResBits", 9, 12) =>
               cfg.tempResBits = toInt(calls.args["tempResBits"])
        /\ GivenInRange("operateIntervalMs", 5000, 3600000) =>
               cfg.operateIntervalMs = toInt(calls.args["operateIntervalMs"])
        /\ GivenInRange("identifyIntervalMs", 2000, 3600000) =>
               cfg.identifyIntervalMs = toInt(calls.args["identifyIntervalMs"])

\* a /save with operateIntervalMs "-1", identifyIntervalMs "abc" and
\* tempResBits "13" has been clamped
C5_Witness ==
    /\ pc = "timer"
    /\ calls.op = "handleSave"
    /\ hasArg(calls.args, "operateIntervalMs")
    /\ calls.args["operateIntervalMs"] = <<"-","1">>
    /\ cfg.operateIntervalMs = 3600000
    /\ cfg.identifyIntervalMs = 2000
    /\ cfg.tempResBits = 12

\* C6: normalizeConfig applied to a normalized configuration changes no
\* field
C6_NormalizeIdempotent ==
    pc = "fnNormalized" => normalizeConfig(cfg) = cfg

\* a configuration whose url was blank, whose numbers were too large and
\* which had more than MAX_ROOMS rooms has been normalized
C6_Witness ==
    /\ pc = "fnNormalized"
    /\ cfg.url = INFLUXDB_URL_DEFAULT
    /\ cfg.tempResBits = 12
    /\ cfg.operateIntervalMs = 3600000
    /\ Len(cfg.rooms) = MAX_ROOMS

\* C7: from the identity step of setup() on, deviceId is the id derived from
\* the station MAC, and enforcing it again reports no change
C7_DeviceIdFollowsMac ==
    pc \in {"wifi", "connected", "loop", "timer", "restart"} =>
        /\ cfg.deviceId = deriveDeviceIdFromStaMac(staMac)
        /\ staMac = MacColons =>
               cfg.deviceId = str_esp32 \o <<"C","D","4","E","E","4">>
        /\ ~enforceDeviceIdFromStaMac(cfg, staMac).changed

\* a /save carrying a deviceId field has been served on the device whose
\* file held another device's id
C7_Witness ==
    /\ pc = "timer"
    /\ calls.op = "handleSave"
    /\ hasArg(calls.args, "deviceId")
    /\ configFile # FileAbsent
    /\ cfg.deviceId = str_esp32 \o <<"C","D","4","E","E","4">>

HexUpper == {HexChars[i] : i \in 1..16}

\* C8: the derived id is "esp32-" and 6 uppercase hex characters: the last
\* three bytes of an address rendered as 12 hex characters, "000000" for
\* any other string
C8_DeviceIdFromLastThreeBytes ==
    pc = "fnEnforced" =>
        /\ Len(cfg.deviceId) = 12
        /\ SubSeq(cfg.deviceId, 1, 6) = str_esp32
        /\ \A i \in 7..12 : cfg.deviceId[i] \in HexUpper
        /\ \A mac \in FnMacBytes :
              staMac = MacAddressString(mac) =>
                  SubSeq(cfg.deviceId, 7, 12) =
                      Hex2(mac[4]) \o Hex2(mac[5]) \o Hex2(mac[6])
        /\ (\A mac \in FnMacBytes : staMac # MacAddressString(mac)) =>
              SubSeq(cfg.deviceId, 7, 12) = <<"0","0","0","0","0","0">>

\* the id of the address FF:01:10:0A:0B:AB has been derived
C8_Witness ==
    /\ pc = "fnEnforced"
    /\ staMac = MacAddressString(<<255, 1, 16, 10, 11, 171>>)
    /\ cfg.deviceId = str_esp32 \o <<"0","A","0","B","A","B">>

\* C9: a normalized configuration is upload-capable exactly when org and
\* token are both non-empty
C9_UsableIffOrgAndToken ==
    pc = "fnNormalized" =>
        (influxConfigIsUsable(cfg) <=> (cfg.org # <<>> /\ cfg.token # <<>>))

\* a configuration with org and token and a blank url and bucket has been
\* normalized and is upload-capable
C9_Witness ==
    /\ pc = "fnNormalized"
    /\ cfg.org = <<"x">>
    /\ cfg.token = <<"x">>
    /\ cfg.url = INFLUXDB_URL_DEFAULT
    /\ cfg.bucket = INFLUXDB_BUCKET_DEFAULT
    /\ influxConfigIsUsable(cfg)

\* C10: a timer firing in Operate mode without an upload-capable
\* configuration, without a client or without sensors requests no
\* conversion, submits no point, issues no flush and signals failure once
C10_SkippedCycleDoesNoWork ==
    [][(/\ TimerStep
        /\ cfg.currentMode = Operate
        /\ ~ULt(USub(nowMs, lastSampleMs), cfg.operateIntervalMs)
        /\ \/ ~influxConfigIsUsable(cfg)
           \/ influxClient = <<>>
           \/ deviceCount <= 0) =>
          /\ calls'.requestTemperatures = 0
          /\ calls'.writePoint = <<>>
          /\ calls'.flushBuffer = 0
          /\ calls'.signalCycleFail = 1
          /\ calls'.signalCycleOk = 0]_vars

\* the timer has fired in Operate mode with an upload-capable configuration
\* and a client, but no sensor on the bus
C10_Witness ==
    /\ pc = "loop"
    /\ calls.op = "loopTimer"
    /\ calls.signalCycleFail = 1
    /\ cfg.currentMode = Operate
    /\ influxConfigIsUsable(cfg)
    /\ influxClient # <<>>
    /\ deviceCount = 0

\* the getAddress() calls of the last cycle that failed
SkippedIndices ==
    {i \in 1..Len(calls.getAddress) : ~calls.getAddress[i].ok}

\* the lines printed by the last cycle that tell of a skipped sensor: those
\* that report neither a failed submission nor a failed flush
SkipsLogged ==
    {i \in 1..Len(calls.serial) :
        calls.serial[i] \notin {"Buffer/write failed", "Batch flush failed"}}

\* C11: a cycle past its preconditions tries the indices 0..n-1 in order,
\* submits a point for each resolved address, logs each skip and flushes once
C11_EveryIndexAttempted ==
    (calls.op = "loopTimer" /\ calls.requestTemperatures = 1) =>
        LET n == IF deviceCount > 32 THEN 32 ELSE deviceCount
            k == Cardinality(SkippedIndices)
        IN  /\ Len(calls.getAddress) = n
            /\ \A i \in 1..n : calls.getAddress[i].sensorIndex = i - 1
            /\ Len(calls.writePoint) = n - k
            /\ Cardinality(SkipsLogged) = k
            /\ calls.flushBuffer = 1

\* C12: a cycle that reaches the flush signals success when flushBuffer()
\* returned true and failure when it returned false, one signal in all,
\* whatever the submissions did
C12_SignalFollowsFlush ==
    (calls.op = "loopTimer" /\ calls.flushBuffer >= 1) =>
        /\ calls.flushBuffer = 1
        /\ Len(calls.flushResult) = 1
        /\ calls.signalCycleOk = (IF calls.flushResult[1] THEN 1 ELSE 0)
        /\ calls.signalCycleFail = (IF calls.flushResult[1] THEN 0 ELSE 1)

\* a cycle whose only submission failed and whose flush succeeded has
\* signalled success
C12_Witness ==
    /\ calls.op = "loopTimer"
    /\ calls.flushResult = <<TRUE>>
    /\ calls.writePoint # <<>>
    /\ \A i \in 1..Len(calls.writePoint) : ~calls.writePoint[i].ok
    /\ calls.signalCycleOk = 1
    /\ calls.signalCycleFail = 0

\* C13: a cycle submits at most one point per sensor index and only for
\* valid readings: none for a reading that is DEVICE_DISCONNECTED_C
C13_NoPointForInvalidReading ==
    calls.op = "loopTimer" =>
        /\ \A i \in 1..Len(calls.writePoint) : calls.writePoint[i].valid
        /\ \A i, j \in 1..Len(calls.writePoint) :
              calls.writePoint[i].sensorIndex = calls.writePoint[j].sensorIndex
                  => i = j

(***************************************************************************)
(* setup() on its own, from every kind of /config.json                     *)
(***************************************************************************)
\* a file saved by this device before any credentials were entered
FileNoCreds ==
    FileJson(ConfigJson([normalizeConfig(DefaultConfig) EXCEPT
        !.deviceId = deriveDeviceIdFromStaMac(MacColons)]))

\* a measurement name of 33 characters, as /save accepts it
LongMeasurement == [i \in 1..33 |-> IF i = 33 THEN "z" ELSE "m"]

\* a file written after /save has stored the long measurement name
FileLongMeasurement ==
    FileJson(ConfigJson([normalizeConfig(DefaultConfig) EXCEPT
        !.org = <<"o">>, !.token = <<"t">>,
        !.measurement = LongMeasurement,
        !.deviceId = deriveDeviceIdFromStaMac(MacColons)]))

BootFiles ==
    {FileAbsent, FileUnreadable, FileMalformed, FileSaved, FileEdited, FileNoCreds,
     FileLongMeasurement}

BootInit ==
    /\ pc = "boot"
    /\ cfg = ConfigAtConstruction
    /\ cfgLoaded = FALSE
    /\ influxClient = <<>>
    /\ lastSampleMs = 0
    /\ nowMs = 0
    /\ deviceCount = 0
    /\ wm = NoWm
    /\ calls = NoCalls("construct")
    /\ configFile \in BootFiles
    /\ fsWritable \in {FsWrites, FsOpenFails, FsWriteFails}
    /\ staMac \in {MacColons, <<>>}
    /\ sensorsOnBus \in {0, MaxSensors}

BootNext == SetupLoadConfig \/ SetupWifi \/ SetupRuntime

SpecBoot == BootInit /\ [][BootNext]_vars

\* C14: when the configuration failed to load, or the mode is Operate and
\* the configuration is not upload-capable, the association is made through
\* the interactive portal
C14_PortalWhenNotReady ==
    (/\ pc \in {"connected", "restart"}
     /\ \/ ~cfgLoaded
        \/ cfg.currentMode = Operate /\ ~influxConfigIsUsable(cfg)) =>
        wm.portal /\ wm.interactive

\* a loaded configuration in Operate mode without org and token has been
\* associated through the portal
C14_Witness ==
    /\ pc = "connected"
    /\ cfgLoaded
    /\ cfg.currentMode = Operate
    /\ ~influxConfigIsUsable(cfg)
    /\ wm.portal
    /\ wm.connected

\* C15: when /config.json is absent, unreadable or malformed, loadConfig
\* fails, nothing restarts, and the configuration is the default set, in
\* Operate mode, with the deviceId derived from the station MAC
C15_DefaultsWhenLoadFails ==
    [][(pc = "boot" /\ configFile \in {FileAbsent, FileUnreadable, FileMalformed}) =>
          /\ pc' = "wifi"
          /\ ~cfgLoaded'
          /\ calls'.restart = 0
          /\ cfg' = [url |-> INFLUXDB_URL_DEFAULT,
                     bucket |-> INFLUXDB_BUCKET_DEFAULT,
                     measurement |-> DEFAULT_MEASUREMENT,
                     org |-> <<>>, token |-> <<>>, alias |-> <<>>,
                     tempResBits |-> 10, operateIntervalMs |-> 30000,
                     identifyIntervalMs |-> 30000, rooms |-> <<>>,
                     currentMode |-> Operate,
                     deviceId |-> deriveDeviceIdFromStaMac(staMac)]]_vars

\* a malformed file that could not be rewritten has been replaced in memory
\* by the defaults
C15_Witness ==
    /\ pc = "wifi"
    /\ ~cfgLoaded
    /\ configFile = FileMalformed
    /\ fsWritable = FsOpenFails
    /\ cfg.url = INFLUXDB_URL_DEFAULT
    /\ cfg.identifyIntervalMs = 30000
    /\ cfg.currentMode = Operate
    /\ cfg.deviceId = str_esp32 \o <<"C","D","4","E","E","4">>

\* the step is a /saveRooms request served by handleSaveRooms
SaveRoomsStep == pc = "loop" /\ pc' = "timer" /\ calls'.op = "handleSaveRooms"

\* C16: when the write of /config.json fails during /save or /saveRooms,
\* the request is answered with an error after one attempt, and the
\* configuration of the request stays applied
C16_FailedWriteIsReported ==
    [][((SaveStep \/ SaveRoomsStep) /\ fsWritable \in {FsOpenFails, FsWriteFails}) =>
          /\ calls'.send = 500
          /\ calls'.saveConfig = 1
          /\ calls'.applyConfigToRuntime = 1
          /\ lastSampleMs' = nowMs
          /\ cfg' = normalizeConfig(cfg')]_vars

\* C17: loadConfig applied to the file saveConfig wrote for a normalized
\* configuration succeeds and yields that configuration, field by field
C17_SaveLoadRoundTrip ==
    [][(pc = "fnNormalized" /\ pc' = "fnReloaded") =>
          /\ cfgLoaded'
          /\ cfg' = cfg]_vars

\* a configuration in Identify mode with an untrimmed and an empty room
\* name has been saved and loaded
C17_Witness ==
    /\ pc = "fnReloaded"
    /\ cfgLoaded
    /\ cfg.currentMode = Identify
    /\ cfg.rooms = <<<<" ","K">>, <<>>>>
    /\ cfg.org = <<>>
    /\ cfg.tempResBits = 11

\* the room names of the spec's example, for rooms "K", " ", " B "
ExampleRooms == <<<<"K">>, <<" ">>, <<" ","B"," ">>>>

ExampleNames ==
    (0 :> <<"K">>) @@ (1 :> <<"S","2">>) @@ (2 :> <<"B">>) @@ (5 :> <<"S","6">>)
        @@ (-1 :> <<"S","0">>) @@ (31 :> <<"S","3","2">>) @@ (32 :> <<"S","3","3">>)

\* C18: the room name of index i is the trimmed rooms[i] when i is in range
\* and that is not empty, else "S" and i+1; asking for it leaves rooms as
\* stored
C18_RoomNameOrSensorId ==
    [][pc' = "fnRoom" =>
          LET i == calls'.returned[1].sensorIndex
              name == calls'.returned[1].room
              inRange == i >= 0 /\ i < Len(cfg.rooms)
          IN  /\ cfg' = cfg
              /\ (inRange /\ trim(cfg.rooms[i + 1]) # <<>>) =>
                     name = trim(cfg.rooms[i + 1])
              /\ ~(inRange /\ trim(cfg.rooms[i + 1]) # <<>>) =>
                     name = <<"S">> \o IntToStr(i + 1)
              /\ cfg.rooms = ExampleRooms => name = ExampleNames[i]]_vars

\* the name of index 1, whose stored name is blank, is "S2" and the stored
\* name is still blank
C18_Witness ==
    /\ pc = "fnRoom"
    /\ cfg.rooms = ExampleRooms
    /\ calls.returned = <<[sensorIndex |-> 1, room |-> <<"S","2">>]>>

\* C19: after boot cfg changes only in /save and /saveRooms, which then
\* normalize, re-apply the runtime configuration and try to persist; every
\* other step leaves every field of cfg as it was
C19_OnlySavesMutateConfig ==
    [][AtEventBoundary =>
          \/ /\ SaveStep \/ SaveRoomsStep
             /\ calls'.normalizeConfig = 1
             /\ calls'.applyConfigToRuntime = 1
             /\ calls'.saveConfig = 1
          \/ cfg' = cfg]_vars

\* C20: a failed association restarts the process before the runtime
\* configuration is applied, nothing runs after the restart, and ESP.restart()
\* is called by no step other than that one and the operator's reboot and
\* WiFi reset requests
C20_OnlyAssociationFailureRestarts ==
    [][/\ (pc = "wifi" /\ ~wm'.connected) =>
              /\ pc' = "restart"
              /\ calls'.restart = 1
              /\ calls'.applyConfigToRuntime = 0
              /\ influxClient' = <<>>
              /\ deviceCount' = 0
              /\ lastSampleMs' = 0
       /\ (calls'.restart > 0 \/ pc' = "restart") =>
              \/ pc = "wifi" /\ ~wm'.connected
              \/ pc = "loop" /\ calls'.op = "handleReboot"
       /\ pc # "restart"]_vars

\* the association has failed and the process has restarted with nothing
\* applied
C20_Witness ==
    /\ pc = "restart"
    /\ calls.op = "setupWifi"
    /\ ~wm.connected
    /\ calls.restart = 1
    /\ calls.signalCycleFail = 1
    /\ influxClient = <<>>
    /\ deviceCount = 0

\* (nowMs - lastSampleMs) mod 2^32 is at least operateIntervalMs: a negative
\* difference stands for a value of 2^31 or more
ElapsedMod32 ==
    LET d == nowMs - lastSampleMs
    IN  d < 0 \/ d >= cfg.operateIntervalMs

\* C21: the timer check starts a cycle exactly when the mode is Operate and
\* (now - lastSampleMs) mod 2^32 is at least operateIntervalMs, and stamps
\* lastSampleMs with now; lastSampleMs is otherwise set only by a runtime
\* re-application
C21_CycleGate ==
    [][AtEventBoundary =>
          /\ TimerStep =>
                /\ (calls'.cycleStart = 1) <=>
                       (cfg.currentMode = Operate /\ ElapsedMod32)
                /\ calls'.cycleStart \in {0, 1}
                /\ lastSampleMs' =
                       (IF calls'.cycleStart = 1 THEN nowMs ELSE lastSampleMs)
          /\ (SaveStep \/ SaveRoomsStep) => lastSampleMs' = nowMs
          /\ ~(TimerStep \/ SaveStep \/ SaveRoomsStep) =>
                lastSampleMs' = lastSampleMs]_vars

\* a cycle has started at millis() = 0: the stamp before it was 5000, the
\* counter having wrapped around
C21_Witness ==
    /\ pc = "loop"
    /\ calls.op = "loopTimer"
    /\ calls.cycleStart = 1
    /\ nowMs = 0
    /\ lastSampleMs = 0
    /\ cfg.operateIntervalMs = 30000

(***************************************************************************)
(* The main loop under fair scheduling: loop() is called again and again,  *)
(* millis() advances, and one iteration takes far less than the interval   *)
(***************************************************************************)
\* values of millis() one longest interval apart, the counter wrapping
\* around between them
LongClockPoints == {0, 3600000}

\* millis() moves on by at least the longest interval
TickInterval ==
    /\ pc \in {"connected", "loop", "timer"}
    /\ \E t \in LongClockPoints \ {nowMs} : nowMs' = t
    /\ UNCHANGED <<pc, cfg, cfgLoaded, influxClient, lastSampleMs, configFile,
                   fsWritable, staMac, sensorsOnBus, deviceCount, wm, calls>>

\* handleClient() inside loop(), with or without a request; the operator
\* changes the room names at most
LoopRequest ==
    \/ NoRequest
    \/ HandleConfigForm
    \/ HandleTest
    \/ HandleApiTemps
    \/ HandleRoomsForm
    \/ HandleSaveRooms
    \/ HandleReboot

\* the interval runs out while the iteration is at the timer check
IntervalPasses ==
    /\ pc = "timer"
    /\ TickInterval
    /\ ~ULt(USub(nowMs', lastSampleMs), cfg.operateIntervalMs)

\* the timer check finds the interval elapsed in Operate mode
CycleStarts == LoopTimer /\ calls'.cycleStart = 1

FairNext ==
    \/ SetupLoadConfig
    \/ SetupWifi
    \/ SetupRuntime
    \/ LoopRequest
    \/ LoopTimer
    \/ TickInterval

SpecFair ==
    /\ Init
    /\ [][FairNext]_vars
    /\ WF_vars(LoopRequest)
    /\ WF_vars(LoopTimer)
    /\ SF_vars(IntervalPasses)
    /\ SF_vars(CycleStarts)

\* a cycle has just ended in failure or was skipped
CycleFailed ==
    /\ pc = "loop"
    /\ calls.op = "loopTimer"
    /\ calls.cycleStart = 1
    /\ calls.signalCycleFail = 1

\* a cycle has just been attempted
CycleAttempted ==
    /\ pc = "loop"
    /\ calls.op = "loopTimer"
    /\ calls.cycleStart = 1

C23_NoStaleClient ==
    (AtEventBoundary /\ influxClient # <<>>) =>
        /\ influxClient[1].url = cfg.url
        /\ influxClient[1].org = cfg.org
        /\ influxClient[1].bucket = cfg.bucket
        /\ influxClient[1].token = cfg.token

\* /save has submitted a url between blanks and a blank bucket: the client
\* holds the trimmed url and the default bucket
C23_Witness ==
    /\ pc = "timer"
    /\ calls.op = "handleSave"
    /\ "bucket" \in DOMAIN calls.args
    /\ calls.args["bucket"] = <<" ">>
    /\ calls.newClient = 1
    /\ influxClient # <<>>
    /\ calls.args["url"] = <<" ", "u", " ">>
    /\ influxClient[1].url = <<"u">>
    /\ influxClient[1].bucket = INFLUXDB_BUCKET_DEFAULT

\* C24: at an event boundary in Operate mode the client handle is present
\* exactly when the configuration is upload-capable; and whenever the last
\* step validated the connection, submitted a point or flushed, the handle
\* is present
C24_OperateClientIffUsable ==
    AtEventBoundary =>
        /\ cfg.currentMode = Operate =>
              ((influxClient # <<>>) <=> influxConfigIsUsable(cfg))
        /\ (\/ calls.validateConnection > 0
            \/ calls.writePoint # <<>>
            \/ calls.flushBuffer > 0) => influxClient # <<>>

\* /save in Operate mode with credentials whose validation failed: the
\* client is kept
C24_Witness ==
    /\ pc = "timer"
    /\ calls.op = "handleSave"
    /\ cfg.currentMode = Operate
    /\ influxConfigIsUsable(cfg)
    /\ calls.validateConnection = 1
    /\ calls.signalCycleFail = 1
    /\ influxClient # <<>>

\* C25: when a boot has loaded the configuration and associated without a
\* portal being shown, taking the values back from the portal parameters
\* leaves the configuration as loaded, and the file written holds it
C25_SilentRebootKeepsConfig ==
    [][(pc = "connected" /\ cfgLoaded /\ ~wm.interactive) =>
          /\ cfg' = cfg
          /\ fsWritable = FsWrites => configFile' = FileJson(ConfigJson(cfg))]_vars

\* the same for values that fit the portal parameters: measurement, url,
\* org, bucket and token no longer than 32, 128, 64, 64 and 160 characters
SilentRebootKeepsShortValues ==
    [][(/\ pc = "connected" /\ cfgLoaded /\ ~wm.interactive
        /\ Len(cfg.measurement) <= 32
        /\ Len(cfg.url) <= 128
        /\ Len(cfg.org) <= 64
        /\ Len(cfg.bucket) <= 64
        /\ Len(cfg.token) <= 160) =>
          /\ cfg' = cfg
          /\ fsWritable = FsWrites => configFile' = FileJson(ConfigJson(cfg))]_vars

\* the name of the form field of the i-th room
RoomKey(i) == <<"r","o","o","m">> \o IntToStr(i)

\* C26: /saveRooms replaces rooms by min(device count, 32) entries, entry i
\* being the submitted field room<i> or empty when the field is absent;
\* deviceId is the one derived from the MAC and every other field of the
\* configuration is unchanged
C26_SaveRoomsReplacesRooms ==
    [][SaveRoomsStep =>
          LET n == IF deviceCount > MAX_ROOMS THEN MAX_ROOMS ELSE deviceCount
              submitted == calls'.args
          IN  /\ Len(cfg'.rooms) = n
              /\ \A i \in 1..n :
                    cfg'.rooms[i] = (IF RoomKey(i) \in DOMAIN submitted
                                     THEN submitted[RoomKey(i)] ELSE <<>>)
              /\ cfg'.deviceId = deriveDeviceIdFromStaMac(staMac)
              /\ cfg' = [cfg EXCEPT !.rooms = cfg'.rooms,
                                    !.deviceId = cfg'.deviceId]]_vars

\* /saveRooms with 33 devices counted and fields room2 and room33: 32
\* entries are stored, the second as submitted, the field room33 is dropped
C26_Witness ==
    /\ pc = "timer"
    /\ calls.op = "handleSaveRooms"
    /\ RoomKey(33) \in DOMAIN calls.args
    /\ deviceCount = MAX_ROOMS + 1
    /\ Len(cfg.rooms) = MAX_ROOMS
    /\ cfg.rooms[1] = <<>>
    /\ cfg.rooms[2] = <<" ", "B", " ">>

====
